---- MODULE Spec2Model ----
(***************************************************************************)
(* Vault reconciliation engine of adrianvrj/unbound (backend/src).         *)
(*                                                                         *)
(* Three polling loops are modelled, each as its own specification over    *)
(* the same variables:                                                     *)
(*   SpecW    services/withdrawal_processor.py  (withdrawal state machine) *)
(*   SpecNav  services/nav_reporter.py, rebalancer.py, AutoDepositor       *)
(*            .sync_vault_nav                   (NAV reporting paths)      *)
(*   SpecDep  services/deposit_processor.py     (deposit queue scan)       *)
(*   SpecMon  starknet_client.py VaultMonitor   (wallet balance monitor)   *)
(*                                                                         *)
(* Every await of the code is a point where the environment (users, the    *)
(* exchange paying out, other senders to the operator wallet) may act, so  *)
(* each handler is split into one action per awaited call.                 *)
(*                                                                         *)
(* Units.  Token amounts on chain are integers of micro-USDC ("raw").      *)
(* The code turns them into floats of USDC; the model keeps those floats   *)
(* as integers of half-micro-USDC so that usdc_value / 2 stays exact.      *)
(* Float rounding error below half a micro-USDC is not modelled.           *)
(***************************************************************************)
EXTENDS Integers, Sequences, FiniteSets, TLC

\* ---------------------------------------------------------------- bounds
NumReq == 2          \* withdrawal requests in the on-chain queue
MaxWallet == 3       \* operator wallet balance, raw micro-USDC
MaxTime == 1         \* wall-clock readings 0 .. MaxTime
MaxDep == 2          \* deposit requests in the on-chain queue
MaxMonUsdc == 1      \* whole USDC the monitored wallet / the expectations hold

\* raw valuations preview_redeem can return for a request (micro-USDC)
ValSet == {2, 3}

ReqIds == 0 .. (NumReq - 1)
NoRec == [kind |-> "none"]

\* WithdrawalStatus(IntEnum)
WithdrawalStatus == {"PENDING", "PROCESSING", "READY", "COMPLETED", "CANCELLED"}

VARIABLES
    \* --- on-chain / external ledgers
    wstatus,         \* vault withdrawal queue: request_id -> WithdrawalStatus
    wallet,          \* operator wallet USDC balance (raw)
    \* --- WithdrawalProcessor
    processing_withdrawals,  \* insertion-ordered dict: Seq of [id, usdc_value, step]
    pcW,             \* position of the withdrawal loop
    wqlen,           \* queue_length read at the top of the tick
    wi,              \* request_id being scanned / index into the dict being checked
    completed,       \* the local list `completed` of _check_processing_withdrawals
    wobs,            \* locals of the call in progress
    \* --- history of the withdrawal loop (not program state)
    wEvent,          \* what the last step of the loop did, NoRec if nothing of note
    wdIssued,        \* ids for which withdraw_from_extended was called
    forwarded,       \* ids whose amount was transferred to the vault
    marked,          \* ids for which mark_withdrawal_ready took effect
    wdLost,          \* ids whose exchange withdrawal was accepted in the step
                     \* right before the process restarted
    \* --- exchange account and vault NAV
    equity,          \* exchange equity (USDC float, half-micro-USDC)
    chainNav,        \* NAV stored in the vault contract (raw)
    now,             \* wall clock
    \* --- NAVReporter
    last_nav,        \* self.last_nav
    last_update,     \* self.last_update (-1 is None)
    pcN,             \* position of the scheduled _report_nav
    nNav,            \* its local `equity`
    pcF,             \* position of a force_update call
    fNav,            \* its local `nav`
    \* --- Rebalancer.run_once
    pcR,             \* position of run_once
    rEquity,         \* state.equity read for the NAV sync
    last_action,     \* self.last_action
    \* --- history of the NAV paths (not program state)
    nEvent,          \* what the last step of a NAV path did
    \* --- vault deposit queue and DepositProcessor
    deposits,        \* on-chain queue: Seq of [usdc_amount (raw), processed]
    pcD,             \* position of the deposit loop
    di,              \* request_id being scanned
    dobs,            \* the DepositQueueItem being processed
    \* --- history of the deposit loop (not program state)
    dEvent,          \* what the last step of the loop did
    minted,          \* request_ids the vault processed on the engine's invocation
    deposited,       \* request_ids whose deposit_to_extended returned a tx hash
    \* --- VaultMonitor
    pending_deposit,            \* self.pending_deposit
    pending_withdrawal_amount,  \* self.pending_withdrawal_amount
    last_balance,               \* self.last_balance
    mFile,           \* vault_monitor_state.json, NoFile when absent
    pcM,             \* position of run_monitor
    mLocal,          \* locals of check_for_balance_changes across its awaits
    \* --- history of the monitor (not program state)
    mEvent,          \* what the last step of the monitor did
    \* --- exchange market and hedge, vault risk asset (whole USD)
    funding_rate,    \* marketStats.fundingRate of the market, in 1e-6
    position_value,  \* value of the SHORT position, 0 when there is none
    wbtc_value_usd,  \* wBTC held by the vault times the mark price
    \* --- PositionManager
    position_closed_due_to_funding,  \* self.position_closed_due_to_funding
    pcP,             \* position of _check_funding_rate
    \* --- UnboundVaultStrategy.execute_strategy
    pcS,             \* position of execute_strategy
    sState,          \* the StrategyState returned by get_state
    \* --- history of the position manager and the strategy (not program state)
    pEvent,          \* what the last step did, if the position manager's
    sEvent,          \* what the last step did, if execute_strategy's
    belowSinceClose, \* funding stayed below the negative threshold since the
                     \* last close-all
    \* --- the polling loop of one service object
    loop,            \* which service the behaviour follows
    running,         \* self.running of that object
    lTasks,          \* position of each task running the object's loop
    \* --- history of the loop (not program state)
    lEvent,          \* what the last step did
    lStopped,        \* tasks that were alive when stop() was called
    \* --- _start_processing, steps 1 and 2, and the hedge it closes (1e-5 BTC/USD)
    btc_position_size,  \* btc_position.size on the exchange, NoPosition when none
    close_usdc_amount,  \* extended_usdc of _start_processing, the usdc_amount
                        \* of _close_proportional_position
    pcC,             \* position of _start_processing
    closed_total,    \* size closed so far on behalf of the request in hand
                     \* (not program state)
    cEvent,          \* what the last step did (not program state)
    \* --- configuration
    operator_private_key  \* settings.operator_private_key, "" when not set

wChain == <<wstatus, wallet>>
wProg == <<processing_withdrawals, pcW, wqlen, wi, completed, wobs>>
wHist == <<wEvent, wdIssued, forwarded, marked>>
wVars == <<wChain, wProg, wHist, wdLost>>

nChain == <<equity, chainNav, now>>
nProg == <<last_nav, last_update, pcN, nNav, pcF, fNav, pcR, rEquity, last_action>>
nVars == <<nChain, nProg, nEvent>>

dProg == <<deposits, pcD, di, dobs>>
dVars == <<dProg, dEvent, minted, deposited>>

mMem == <<pending_deposit, pending_withdrawal_amount, last_balance>>
mVars == <<mMem, mFile, pcM, mLocal, mEvent>>

pMarket == <<funding_rate, position_value, wbtc_value_usd>>
pProg == <<position_closed_due_to_funding, pcP, pcS, sState>>
pVars == <<pMarket, pProg, pEvent, sEvent, belowSinceClose>>

lVars == <<loop, running, lTasks, lEvent, lStopped>>

cVars == <<btc_position_size, close_usdc_amount, pcC, cEvent, closed_total>>

vars == <<wVars, nVars, dVars, mVars, pVars, lVars, cVars, operator_private_key>>

\* what each loop leaves alone (the operator wallet is shared by the
\* withdrawal and the deposit loop)
notW == <<nVars, dVars, wdLost, mVars, pVars, lVars,
         cVars, operator_private_key>>
notN == <<wVars, dVars, mVars, pVars, lVars,
         cVars, operator_private_key>>
notD == <<wstatus, wProg, wHist, wdLost, nVars, mVars, pVars, lVars,
         cVars, operator_private_key>>
notM == <<wstatus, wProg, wHist, wdLost, nVars, dVars, pVars, lVars,
         cVars, operator_private_key>>
\* the strategy reads the exchange equity
notP == <<wVars, equity, chainNav, now, nProg, nEvent, dVars, mVars, lVars,
         cVars, operator_private_key>>
notL == <<wVars, nVars, dVars, mVars, pVars,
         cVars, operator_private_key>>
notC == <<wVars, nVars, dVars, mVars, pVars, lVars, operator_private_key>>

\* ------------------------------------------------------------ signing
\* a deployment with the operator's key in the environment
Configured == operator_private_key = "0xKEY"

\* whether a transaction can be signed.  invoke_contract builds its key pair
\* from int(settings.operator_private_key, 16) inside its try, so an empty key
\* raises there and None is returned; AutoDepositor._get_account returns None
\* on `not settings.operator_private_key`, and deposit_to_extended,
\* send_usdc_to_vault and sync_vault_nav return None on an account of None
CanSign_Mut == TRUE
CanSign == operator_private_key # ""

\* ------------------------------------------------------------ arithmetic

\* float(raw) / 1e6 : raw micro-USDC -> USDC float (held in half-micro-USDC)
UsdcFromRaw(raw) == 2 * raw
\* extended_usdc = usdc_value / 2
ExtendedUsdc(usdc_value) == usdc_value \div 2
\* int(amount * 1e6) : USDC float -> raw micro-USDC, truncating
ToRaw(amount) == amount \div 2

\* ------------------------------------------------- insertion-ordered dict
Keys(d) == {d[k].id : k \in 1 .. Len(d)}
IndexOf(d, id) == CHOOSE k \in 1 .. Len(d) : d[k].id = id
\* d[id] = entry : replaces in place when the key exists, appends otherwise
DictSet(d, entry) ==
    IF entry.id \in Keys(d)
    THEN [d EXCEPT ![IndexOf(d, entry.id)] = entry]
    ELSE Append(d, entry)
\* del d[id]
DictDel(d, id) == SelectSeq(d, LAMBDA e : e.id # id)
DictGet(d, id) == d[IndexOf(d, id)]

\* ================================================================
\* WithdrawalProcessor (services/withdrawal_processor.py)
\* ================================================================

\* withdraw_from_extended as the processor sees it: a dict with status
\* "success", a dict with status "failed" (the exchange rejected the request),
\* a dict with status "error" (no funds available for withdrawal), None, or an
\* exception
WithdrawResults == {"success", "failed", "error", "none", "raise"}

\* `if withdrawal and withdrawal.status == WithdrawalStatus.PENDING`
IsPending_Mut(status) == status # "READY"
IsPending(status) == status = "PENDING"

\* `if request_id not in self.processing_withdrawals`
NotInProcessing_Mut(request_id, d) == TRUE
NotInProcessing(request_id, d) == request_id \notin Keys(d)

\* `if usdc_value <= 0: return`
InvalidValue(usdc_value) == usdc_value <= 0

\* `if withdrawal_requested:` -- truthiness of the returned value: any dict is
\* truthy, whatever its "status"
WithdrawalRequested(result) == result \in {"success", "failed", "error"}

\* `if data["step"] == "waiting_usdc"` and `if usdc_balance >= data["usdc_value"]`
BalanceReached(usdc_balance, usdc_value) == usdc_balance >= usdc_value

\* `if not forward_success: return False` -- whether _complete_processing goes
\* on to mark_withdrawal_ready
ForwardGate_Mut(forward_success) == TRUE
ForwardGate(forward_success) == forward_success

\* `if success: completed.append(request_id)`
AppendCompleted_Mut(success, done, request_id) == done \cup {request_id}
AppendCompleted(success, done, request_id) ==
    IF success THEN done \cup {request_id} ELSE done

\* the vault's mark_withdrawal_ready: accepted only for a request that is
\* still owned by the engine
MarkReadyAccepted(status) == status \in {"PENDING", "PROCESSING"}

NoObs == [status |-> "none", closed |-> FALSE, balance |-> 0,
          forwarded |-> FALSE, forward_raw |-> 0]

\* scan bookkeeping: the `for request_id in range(queue_length)` loop moves
\* on, and _check_processing_withdrawals follows the scan
AfterScanItem(i) ==
    /\ wobs' = NoObs
    /\ IF i + 1 < wqlen
       THEN /\ pcW' = "scan"
            /\ wi' = i + 1
            /\ wqlen' = wqlen
       ELSE /\ pcW' = "check"
            /\ wi' = 1
            /\ wqlen' = 0

\* the `for request_id, data in self.processing_withdrawals.items()` loop
\* moves on
AfterCheckItem ==
    /\ wobs' = NoObs
    /\ pcW' = "check"
    /\ wi' = wi + 1

\* top of a tick: _get_withdrawal_queue_length (0 when the call fails)
WTickBegin ==
    /\ pcW = "idle"
    /\ \E queue_length \in {0, NumReq} :
         IF queue_length = 0
         THEN pcW' = "check" /\ wi' = 1 /\ wqlen' = 0
         ELSE pcW' = "scan" /\ wi' = 0 /\ wqlen' = queue_length
    /\ wEvent' = NoRec
    /\ UNCHANGED notW
    /\ UNCHANGED <<wChain, processing_withdrawals, completed, wobs,
                   wdIssued, forwarded, marked>>

\* one iteration of the scan: _get_pending_withdrawal(request_id) and the
\* decision to call _start_processing
WScanItem ==
    /\ pcW = "scan"
    /\ \E fetched \in BOOLEAN :
         LET status == wstatus[wi] IN
         IF fetched /\ IsPending(status) /\ NotInProcessing(wi, processing_withdrawals)
         THEN /\ pcW' = "valuing"
              /\ UNCHANGED <<wi, wqlen>>
              /\ wobs' = [NoObs EXCEPT !.status = status]
              /\ wEvent' = [kind |-> "start", id |-> wi, status |-> status,
                            tracked |-> wi \in Keys(processing_withdrawals)]
         ELSE /\ AfterScanItem(wi)
              /\ wEvent' = IF fetched
                           THEN [kind |-> "skip", id |-> wi, status |-> status,
                                 tracked |-> wi \in Keys(processing_withdrawals)]
                           ELSE NoRec
    /\ UNCHANGED notW
    /\ UNCHANGED <<wChain, processing_withdrawals, completed,
                   wdIssued, forwarded, marked>>

\* _start_processing, up to the creation of the ProcessingEntry:
\* _calculate_usdc_value returns preview_redeem / 1e6, or 0 when the call fails
WValuation ==
    /\ pcW = "valuing"
    /\ \E raw \in {0} \cup ValSet :
         LET usdc_value == UsdcFromRaw(raw)
             extended_usdc == ExtendedUsdc(usdc_value)
         IN
         IF InvalidValue(usdc_value)
         THEN /\ AfterScanItem(wi)
              /\ wEvent' = [kind |-> "start_end", id |-> wi, failed |-> TRUE,
                            closed |-> FALSE, withdraw |-> "not_called",
                            entry |-> wi \in Keys(processing_withdrawals)]
              /\ UNCHANGED processing_withdrawals
         ELSE /\ processing_withdrawals' =
                    DictSet(processing_withdrawals,
                            [id |-> wi, usdc_value |-> extended_usdc,
                             step |-> "closing_position"])
              /\ pcW' = "closing"
              /\ wEvent' = NoRec
              /\ UNCHANGED <<wi, wqlen, wobs>>
    /\ UNCHANGED notW
    /\ UNCHANGED <<wChain, completed, wdIssued, forwarded, marked>>

\* Step 1 of _start_processing: _close_proportional_position returns True or,
\* when the exchange call raises, False; the processor continues either way
WClosePosition ==
    /\ pcW = "closing"
    /\ \E position_closed \in BOOLEAN :
         /\ wobs' = [wobs EXCEPT !.closed = position_closed]
         /\ wEvent' = [kind |-> "close", id |-> wi, status |-> wobs.status]
    /\ pcW' = "withdrawing"
    /\ UNCHANGED notW
    /\ UNCHANGED <<wChain, processing_withdrawals, wqlen, wi, completed,
                   wdIssued, forwarded, marked>>

\* Step 2 of _start_processing: withdraw_from_extended(extended_usdc)
WWithdrawRequest ==
    /\ pcW = "withdrawing"
    /\ \E result \in WithdrawResults :
         /\ processing_withdrawals' =
              IF result = "raise"
              THEN DictDel(processing_withdrawals, wi)
              ELSE IF WithdrawalRequested(result)
              THEN DictSet(processing_withdrawals,
                           [DictGet(processing_withdrawals, wi)
                              EXCEPT !.step = "waiting_usdc"])
              ELSE DictDel(processing_withdrawals, wi)
         /\ wEvent' = [kind |-> "start_end", id |-> wi,
                       failed |-> ~wobs.closed \/ result # "success",
                       closed |-> wobs.closed, withdraw |-> result,
                       entry |-> wi \in Keys(processing_withdrawals')]
    /\ wdIssued' = wdIssued \cup {wi}
    /\ AfterScanItem(wi)
    /\ UNCHANGED notW
    /\ UNCHANGED <<wChain, completed, forwarded, marked>>

\* one iteration of _check_processing_withdrawals: for an entry waiting for
\* USDC, get_usdc_balance (0.0 when the call fails) against the entry's amount
WCheckItem ==
    /\ pcW = "check"
    /\ wi <= Len(processing_withdrawals)
    /\ LET data == processing_withdrawals[wi] IN
       \E raw_balance \in {wallet, 0} :
         LET usdc_balance == UsdcFromRaw(raw_balance) IN
         IF data.step = "waiting_usdc" /\ BalanceReached(usdc_balance, data.usdc_value)
         THEN /\ pcW' = "forward"
              /\ wi' = wi
              /\ wobs' = [NoObs EXCEPT !.balance = usdc_balance]
         ELSE AfterCheckItem
    /\ wEvent' = NoRec
    /\ UNCHANGED notW
    /\ UNCHANGED <<wChain, processing_withdrawals, wqlen, completed,
                   wdIssued, forwarded, marked>>

\* _complete_processing, first half: send_usdc_to_vault(data["usdc_value"]).
\* The transfer moves int(amount * 1e6) raw units and cannot succeed without
\* that balance; it may fail for any other reason too.
WForward ==
    /\ pcW = "forward"
    /\ LET data == processing_withdrawals[wi]
           amount_raw == ToRaw(data.usdc_value)
       IN
       \E forward_success \in BOOLEAN :
         /\ forward_success => (CanSign /\ wallet >= amount_raw)
         /\ wallet' = IF forward_success THEN wallet - amount_raw ELSE wallet
         /\ forwarded' = IF forward_success THEN forwarded \cup {data.id}
                         ELSE forwarded
         /\ wEvent' = [kind |-> "forward", id |-> data.id, ok |-> forward_success,
                       again |-> data.id \in forwarded]
         /\ IF ForwardGate(forward_success)
            THEN /\ pcW' = "mark"
                 /\ wi' = wi
                 /\ wobs' = [wobs EXCEPT !.forwarded = forward_success,
                                         !.forward_raw = amount_raw]
            ELSE AfterCheckItem
    /\ UNCHANGED notW
    /\ UNCHANGED <<wstatus, processing_withdrawals, wqlen, completed,
                   wdIssued, marked>>

\* _complete_processing, second half: invoke mark_withdrawal_ready(request_id,
\* int(usdc_value * 1e6)); back in the caller, a success is appended to
\* `completed`
WMarkReady ==
    /\ pcW = "mark"
    /\ LET data == processing_withdrawals[wi]
           usdc_amount_raw == ToRaw(data.usdc_value)
       IN
       \E result \in BOOLEAN :
         /\ result => (CanSign /\ MarkReadyAccepted(wstatus[data.id]))
         /\ wstatus' = IF result THEN [wstatus EXCEPT ![data.id] = "READY"]
                       ELSE wstatus
         /\ marked' = IF result THEN marked \cup {data.id} ELSE marked
         /\ wEvent' = [kind |-> "mark", id |-> data.id, step |-> data.step,
                       requested |-> data.id \in wdIssued,
                       balance |-> wobs.balance, usdc_value |-> data.usdc_value,
                       forwarded |-> wobs.forwarded,
                       forward_raw |-> wobs.forward_raw,
                       mark_raw |-> usdc_amount_raw, ok |-> result,
                       again |-> data.id \in marked]
         /\ completed' = AppendCompleted(result, completed, data.id)
    /\ AfterCheckItem
    /\ UNCHANGED notW
    /\ UNCHANGED <<wallet, processing_withdrawals, wqlen, wdIssued, forwarded>>

\* end of _check_processing_withdrawals: `for request_id in completed: del ...`
\* and the tick is over
WCheckEnd ==
    /\ pcW = "check"
    /\ wi > Len(processing_withdrawals)
    /\ processing_withdrawals' =
         SelectSeq(processing_withdrawals, LAMBDA e : e.id \notin completed)
    /\ completed' = {}
    /\ pcW' = "idle"
    /\ wi' = 0
    /\ wEvent' = NoRec
    /\ UNCHANGED notW
    /\ UNCHANGED <<wChain, wqlen, wobs, wdIssued, forwarded, marked>>

\* ---- environment of the withdrawal loop
\* USDC arrives in the operator wallet (an exchange payout, a vault transfer)
EnvCredit ==
    /\ wallet < MaxWallet
    /\ wallet' = wallet + 1
    /\ UNCHANGED notW
    /\ UNCHANGED <<wstatus, wProg, wHist>>

\* the user cancels a request that is not ready yet
EnvUserCancel ==
    /\ \E id \in ReqIds :
         /\ wstatus[id] = "PENDING"
         /\ wstatus' = [wstatus EXCEPT ![id] = "CANCELLED"]
    /\ UNCHANGED notW
    /\ UNCHANGED <<wallet, wProg, wHist>>

\* the user claims a READY request
EnvUserComplete ==
    /\ \E id \in ReqIds :
         /\ wstatus[id] = "READY"
         /\ wstatus' = [wstatus EXCEPT ![id] = "COMPLETED"]
    /\ UNCHANGED notW
    /\ UNCHANGED <<wallet, wProg, wHist>>


\* ---- process restart: WithdrawalProcessor() is constructed anew, so the
\* in-memory dict is empty again and the loop starts from the top of a tick;
\* the vault queue, the wallet and the exchange keep what they hold
WRestart ==
    /\ processing_withdrawals' = << >>
    /\ pcW' = "idle"
    /\ wqlen' = 0
    /\ wi' = 0
    /\ completed' = {}
    /\ wobs' = NoObs
    /\ wdLost' = IF wEvent.kind = "start_end" /\ wEvent.withdraw = "success"
                 THEN wdLost \cup {wEvent.id}
                 ELSE wdLost
    /\ wEvent' = [kind |-> "restart",
                  lost |-> Keys(processing_withdrawals)]
    /\ UNCHANGED <<wChain, wdIssued, forwarded, marked>>
    /\ UNCHANGED <<nVars, dVars, mVars, pVars, lVars, cVars, operator_private_key>>

\* ================================================================
\* NAV reporting: NAVReporter (services/nav_reporter.py) and the
\* rebalancer's post-strategy sync (rebalancer.py, AutoDepositor.sync_vault_nav)
\* ================================================================

\* self.max_change_bps
max_change_bps == 500

\* equity readings of the exchange account (USDC, in half-micro-USDC)
EquitySet == {0, 190, 200, 210, 212}

Abs(x) == IF x < 0 THEN -x ELSE x

\* _is_safe_update: change_bps = abs(new_nav - last_nav) * 10000 / last_nav,
\* compared without rounding
IsSafeUpdate_Mut(new_nav, last) ==
    \/ last <= 0
    \/ Abs(new_nav - last) * 1000 <= max_change_bps * last
IsSafeUpdate(new_nav, last) ==
    \/ last <= 0
    \/ Abs(new_nav - last) * 10000 <= max_change_bps * last

\* `if equity <= 0: return` / `if nav <= 0: return False`
NoEquity(nav) == nav <= 0

\* an update_nav invocation as seen from outside: which path made it, the
\* float it encodes, the encoded argument, and the reporter's and the vault's
\* NAV at that moment
UpdateNavCall(path, nav) ==
    [kind |-> "update_nav", path |-> path, nav |-> nav, raw |-> ToRaw(nav),
     last |-> last_nav, chain |-> chainNav]

\* _get_extended_equity: `await self.extended.get_account_balance()`.
\* ExtendedClient defines get_balance and no get_account_balance: the
\* AttributeError is caught by the method's own handler and 0 is returned
get_extended_equity == 0

\* _report_nav from the equity it obtained: the two guards and the invocation
\* of update_nav
ReportNav(read) ==
    IF NoEquity(read)
    THEN /\ nEvent' = [kind |-> "no_equity", path |-> "scheduled"]
         /\ UNCHANGED <<pcN, nNav>>
    ELSE IF ~IsSafeUpdate(read, last_nav)
    THEN /\ nEvent' = [kind |-> "nav_skip", path |-> "scheduled",
                       nav |-> read, last |-> last_nav]
         /\ UNCHANGED <<pcN, nNav>>
    ELSE /\ pcN' = "invoking"
         /\ nNav' = read
         /\ nEvent' = UpdateNavCall("scheduled", read)

\* ---- scheduled path: _report_nav as the service runs it
NReport ==
    /\ pcN = "idle"
    /\ ReportNav(get_extended_equity)
    /\ UNCHANGED <<nChain, last_nav, last_update, pcF, fNav, pcR, rEquity, last_action>>
    /\ UNCHANGED notN

\* ---- _report_nav handed the exchange's equity, for the reporter's guards
\* as a function of the equity and of last_nav
NReportGiven ==
    /\ pcN = "idle"
    /\ ReportNav(equity)
    /\ UNCHANGED <<nChain, last_nav, last_update, pcF, fNav, pcR, rEquity, last_action>>
    /\ UNCHANGED notN

\* `if success: self.last_nav = ...; self.last_update = datetime.now()`: a
\* field of NAVState after _update_vault_nav returned
NavStateAfter_Mut(success, value, old) == value
NavStateAfter(success, value, old) == IF success THEN value ELSE old

\* _update_vault_nav returns; on success NAVState is updated
NReportDone ==
    /\ pcN = "invoking"
    /\ \E success \in BOOLEAN :
         /\ success => CanSign
         /\ chainNav' = IF success THEN ToRaw(nNav) ELSE chainNav
         /\ last_nav' = NavStateAfter(success, nNav, last_nav)
         /\ last_update' = NavStateAfter(success, now, last_update)
         /\ nEvent' = [kind |-> "update_done", path |-> "scheduled", ok |-> success]
    /\ pcN' = "idle"
    /\ nNav' = 0
    /\ UNCHANGED <<equity, now, pcF, fNav, pcR, rEquity, last_action>>
    /\ UNCHANGED notN

\* ---- manual path: force_update(nav), nav None or a value
NavNone == -1
FForce ==
    /\ pcF = "idle"
    /\ \E nav \in {NavNone} \cup EquitySet :
           LET value == IF nav = NavNone THEN get_extended_equity ELSE nav IN
           IF NoEquity(value)
           THEN /\ nEvent' = [kind |-> "no_equity", path |-> "force"]
                /\ UNCHANGED <<pcF, fNav>>
           ELSE /\ pcF' = "invoking"
                /\ fNav' = value
                /\ nEvent' = UpdateNavCall("force", value)
    /\ UNCHANGED <<nChain, last_nav, last_update, pcN, nNav, pcR, rEquity, last_action>>
    /\ UNCHANGED notN

FForceDone ==
    /\ pcF = "invoking"
    /\ \E success \in BOOLEAN :
         /\ success => CanSign
         /\ chainNav' = IF success THEN ToRaw(fNav) ELSE chainNav
         /\ last_nav' = NavStateAfter(success, fNav, last_nav)
         /\ last_update' = NavStateAfter(success, now, last_update)
         /\ nEvent' = [kind |-> "update_done", path |-> "force", ok |-> success]
    /\ pcF' = "idle"
    /\ fNav' = 0
    /\ UNCHANGED <<equity, now, pcN, nNav, pcR, rEquity, last_action>>
    /\ UNCHANGED notN

\* what execute_strategy returns: the action it took and the status of the
\* order, "FAILED" when the exchange client returned None
StrategyResults ==
    {[action |-> "HOLD", status |-> "none"],
     [action |-> "OPEN_SHORT", status |-> "success"],
     [action |-> "OPEN_SHORT", status |-> "FAILED"]}
\* self.last_action = None
NoAction == [action |-> "None", status |-> "none"]
\* `return {"action": "ERROR", "error": str(e)}`
ErrorResult == [action |-> "ERROR", status |-> "none"]

\* ---- Rebalancer.run_once: execute_strategy, then get_state for the sync
\* (either may raise: a raise of execute_strategy skips the sync, a raise of
\* get_state is logged)
RRunOnce ==
    /\ pcR = "idle"
    /\ \E strategy_ok \in BOOLEAN, result \in StrategyResults, state_ok \in BOOLEAN :
         /\ last_action' = IF strategy_ok THEN result ELSE last_action
         /\ IF strategy_ok /\ state_ok
            THEN /\ pcR' = "sync"
                 /\ rEquity' = equity
            ELSE UNCHANGED <<pcR, rEquity>>
         /\ nEvent' = [kind |-> "run_once", raised |-> ~strategy_ok,
                       returned |-> IF strategy_ok THEN result ELSE ErrorResult]
    /\ UNCHANGED <<nChain, last_nav, last_update, pcN, nNav, pcF, fNav>>
    /\ UNCHANGED notN

\* auto_depositor.sync_vault_nav(state.equity): no call without a signing
\* account; otherwise update_nav(int(equity * 1e6)) is submitted
RSyncNav ==
    /\ pcR = "sync"
    /\ \E outcome \in {"no_account", "sent", "failed"} :
         /\ outcome # "no_account" => CanSign
         /\ chainNav' = IF outcome = "sent" THEN ToRaw(rEquity) ELSE chainNav
         /\ nEvent' = IF outcome = "no_account"
                      THEN NoRec
                      ELSE UpdateNavCall("sync", rEquity)
    /\ pcR' = "idle"
    /\ rEquity' = 0
    /\ UNCHANGED <<equity, now, last_nav, last_update, pcN, nNav, pcF, fNav,
                   last_action>>
    /\ UNCHANGED notN

\* ---- environment of the NAV paths
EnvEquity ==
    /\ \E e \in EquitySet \ {equity} : equity' = e
    /\ UNCHANGED <<chainNav, now, nProg, nEvent>>
    /\ UNCHANGED notN

EnvClock ==
    /\ now < MaxTime
    /\ now' = now + 1
    /\ UNCHANGED <<equity, chainNav, nProg, nEvent>>
    /\ UNCHANGED notN

NavIdle ==
    /\ now = 0
    /\ last_nav = 0
    /\ last_update = -1
    /\ pcN = "idle"
    /\ nNav = 0
    /\ pcF = "idle"
    /\ fNav = 0
    /\ pcR = "idle"
    /\ rEquity = 0
    /\ last_action = NoAction
    /\ nEvent = NoRec

\* ================================================================
\* DepositProcessor (services/deposit_processor.py)
\* ================================================================

\* MAX_DEPOSITS, the safety limit of the scan
MAX_DEPOSITS == 100

\* amounts users deposit (raw micro-USDC): 0.01 USDC and 2 USDC
DepAmounts == {10000, 2000000}

NoDeposit == [request_id |-> -1, usdc_amount |-> 0]

\* `if deposit.processed: continue`
SkipProcessed_Mut(processed) == FALSE
SkipProcessed(processed) == processed

\* `if deposit.usdc_amount <= 0.01: continue` (0.01 USDC in half-micro-USDC)
SkipDust(usdc_amount) == usdc_amount <= 20000

\* get_pending_deposit(request_id) as the vault answers it: the stored request,
\* or zeros for a key the Cairo map does not hold
ReadDeposit(q, request_id) ==
    IF request_id < Len(q)
    THEN [user |-> "0xA", usdc_amount |-> q[request_id + 1].usdc_amount,
          processed |-> q[request_id + 1].processed]
    ELSE [user |-> "0x0", usdc_amount |-> 0, processed |-> FALSE]

\* `if deposit.user == "0x0": break`
IsSentinel_Mut(deposit) == FALSE
IsSentinel(deposit) == deposit.user = "0x0"

\* the vault's process_deposits(1): the oldest unprocessed request is marked
\* processed and its USDC leg, half of the recorded value, goes to the operator
Unprocessed(q) == {k \in 1 .. Len(q) : ~q[k].processed}
OldestUnprocessed(q) == CHOOSE k \in Unprocessed(q) : \A j \in Unprocessed(q) : k <= j

DepIdle ==
    /\ deposits = << >>
    /\ pcD = "idle"
    /\ di = 0
    /\ dobs = NoDeposit
    /\ dEvent = NoRec
    /\ minted = {}
    /\ deposited = {}

\* ---- the deposit loop
\* `for request_id in range(MAX_DEPOSITS)` moves on
AfterDepositItem ==
    /\ dobs' = NoDeposit
    /\ IF di + 1 < MAX_DEPOSITS
       THEN pcD' = "scan" /\ di' = di + 1
       ELSE pcD' = "idle" /\ di' = 0

\* top of a tick: _process_pending_deposits starts at request_id 0
DTickBegin ==
    /\ pcD = "idle"
    /\ pcD' = "scan"
    /\ di' = 0
    /\ dEvent' = NoRec
    /\ UNCHANGED <<wallet, deposits, dobs, minted, deposited>>
    /\ UNCHANGED notD

\* one iteration of the scan: _get_pending_deposit(request_id) (None when the
\* read fails; a slot beyond the queue reads back with user 0x0)
DScanItem ==
    /\ pcD = "scan"
    /\ \E fetched \in BOOLEAN :
         IF ~fetched
         THEN /\ AfterDepositItem
              /\ dEvent' = [kind |-> "skip", id |-> di, why |-> "error"]
         ELSE LET deposit == ReadDeposit(deposits, di)
                  usdc_amount == UsdcFromRaw(deposit.usdc_amount)
              IN
              IF IsSentinel(deposit)
              THEN /\ pcD' = "idle"
                   /\ di' = 0
                   /\ dobs' = NoDeposit
                   /\ dEvent' = [kind |-> "end_of_queue", id |-> di]
              ELSE IF SkipProcessed(deposit.processed)
              THEN /\ AfterDepositItem
                   /\ dEvent' = [kind |-> "skip", id |-> di, why |-> "processed"]
              ELSE IF SkipDust(usdc_amount)
              THEN /\ AfterDepositItem
                   /\ dEvent' = [kind |-> "skip", id |-> di, why |-> "dust"]
              ELSE /\ pcD' = "mint"
                   /\ di' = di
                   /\ dobs' = [request_id |-> di, usdc_amount |-> usdc_amount,
                               processed |-> deposit.processed]
                   /\ dEvent' = NoRec
    /\ UNCHANGED <<wallet, deposits, minted, deposited>>
    /\ UNCHANGED notD

\* `if not process_result: ... return False`: whether the entry goes on to
\* the balance read
MintGate_Mut(process_result) == TRUE
MintGate(process_result) == process_result

\* Step 1 of _process_single_deposit: invoke process_deposits([1])
DMint ==
    /\ pcD = "mint"
    /\ \E process_result \in BOOLEAN :
         LET todo == Unprocessed(deposits) IN
         /\ process_result => CanSign
         /\ dEvent' = [kind |-> "mint", id |-> dobs.request_id,
                       read_processed |-> dobs.processed,
                       chain_processed |-> deposits[dobs.request_id + 1].processed,
                       ok |-> process_result]
         /\ IF process_result /\ todo # {}
            THEN LET k == OldestUnprocessed(deposits) IN
                 /\ deposits' = [deposits EXCEPT ![k].processed = TRUE]
                 /\ wallet' = wallet + (deposits[k].usdc_amount \div 2)
                 /\ minted' = minted \cup {k - 1}
            ELSE UNCHANGED <<deposits, wallet, minted>>
         /\ IF MintGate(process_result)
            THEN pcD' = "balance" /\ UNCHANGED <<di, dobs>>
            ELSE AfterDepositItem
    /\ UNCHANGED deposited
    /\ UNCHANGED notD

\* Step 2: after the sleep, get_usdc_balance against the expected half (a low
\* balance is only logged)
DBalance ==
    /\ pcD = "balance"
    /\ \E raw_balance \in {wallet, 0} :
         LET actual_usdc == dobs.usdc_amount \div 2
             operator_usdc == UsdcFromRaw(raw_balance)
         IN
         dEvent' = [kind |-> "balance", id |-> dobs.request_id,
                    low |-> 10 * operator_usdc < 9 * actual_usdc]
    /\ pcD' = "deposit"
    /\ UNCHANGED <<wallet, deposits, di, dobs, minted, deposited>>
    /\ UNCHANGED notD

\* Step 3: deposit_to_extended(actual_usdc); a failure is only logged
DDepositExtended ==
    /\ pcD = "deposit"
    /\ LET actual_usdc == dobs.usdc_amount \div 2
           amount_raw == ToRaw(actual_usdc)
       IN
       \E deposit_result \in BOOLEAN :
         /\ deposit_result => (CanSign /\ wallet >= amount_raw)
         /\ wallet' = IF deposit_result THEN wallet - amount_raw ELSE wallet
         /\ dEvent' = [kind |-> "deposit", id |-> dobs.request_id,
                       raw |-> amount_raw, ok |-> deposit_result]
         /\ deposited' = IF deposit_result
                         THEN deposited \cup {dobs.request_id}
                         ELSE deposited
    /\ pcD' = "short"
    /\ UNCHANGED <<deposits, di, dobs, minted>>
    /\ UNCHANGED notD

\* Step 4: open_short_position(market, actual_usdc * leverage); the result is
\* only logged, an exception ends the entry with False
DOpenShort ==
    /\ pcD = "short"
    /\ \E position_result \in {"order", "none", "raise"} :
         dEvent' = [kind |-> "short", id |-> dobs.request_id,
                    result |-> position_result]
    /\ AfterDepositItem
    /\ UNCHANGED <<wallet, deposits, minted, deposited>>
    /\ UNCHANGED notD

\* ---- environment of the deposit loop: a user's request is appended
EnvNewDeposit ==
    /\ Len(deposits) < MaxDep
    /\ \E a \in DepAmounts :
         deposits' = Append(deposits, [usdc_amount |-> a, processed |-> FALSE])
    /\ UNCHANGED <<wallet, pcD, di, dobs, dEvent, minted, deposited>>
    /\ UNCHANGED notD


\* ================================================================
\* VaultMonitor (starknet_client.py)
\* ================================================================

\* `current_balance > 0.1` (0.1 USDC in half-micro-USDC)
MinForwardBalance == 200000
\* `if increase > 0.1`
RoundingThreshold == 200000
\* `if self.pending_deposit >= 1.0`
MinDeposit == 2000000

\* amounts credited to the wallet (raw): 0.1 USDC and 1 USDC
MonCredits == {100000, 1000000}
\* amounts registered by expect_withdrawal (USDC, in half-micro-USDC): 0.5
\* and 1 USDC
ExpectAmounts == {1000000, 2000000}

\* the model follows pending_deposit up to one USDC more than the wallet can
\* hold
PendingCap == UsdcFromRaw((MaxMonUsdc + 1) * 1000000)

Min(a, b) == IF a < b THEN a ELSE b

NoFile == [kind |-> "absent"]
NoLocal == [current_balance |-> 0, increase |-> 0, amount |-> 0]

\* the state dict _save_state writes
StateRecord(pd, pw, lb) ==
    [kind |-> "state", pending_deposit |-> pd,
     pending_withdrawal_amount |-> pw, last_balance |-> lb]

\* amount_to_forward = min(current_balance, pending_withdrawal_amount) and
\* withdrawal_match = min(increase, pending_withdrawal_amount)
AmountToForward_Mut(available, pending) == available
AmountToForward(available, pending) == Min(available, pending)

\* `if increase > 0.1: self.pending_deposit += increase`
ClassifyDeposit(pd, increase) ==
    IF increase > RoundingThreshold THEN pd + increase ELSE pd

MonIdle ==
    /\ pending_deposit = 0
    /\ pending_withdrawal_amount = 0
    /\ last_balance = 0
    /\ mFile = NoFile
    /\ pcM = "boot"
    /\ mLocal = NoLocal
    /\ mEvent = NoRec

\* check_for_balance_changes returns to run_monitor with the attributes set to
\* pd, pw, lb; `saved` tells whether the branch called _save_state.  With
\* pending_deposit >= 1.0 run_monitor awaits auto_deposit_if_pending next;
\* otherwise it calls _save_state and sleeps.
FinishCheck(pd, pw, lb, saved) ==
    /\ pd <= PendingCap
    /\ pending_deposit' = pd
    /\ pending_withdrawal_amount' = pw
    /\ last_balance' = lb
    /\ mLocal' = NoLocal
    /\ IF pd >= MinDeposit
       THEN /\ pcM' = "depositing"
            /\ mFile' = IF saved THEN StateRecord(pd, pw, lb) ELSE mFile
       ELSE /\ pcM' = "idle"
            /\ mFile' = StateRecord(pd, pw, lb)

\* `if current_balance > self.last_balance:` and what follows up to the next
\* await, or to the end of check_for_balance_changes
SecondBranch(current_balance) ==
    IF current_balance > last_balance
    THEN LET increase == current_balance - last_balance IN
         IF pending_withdrawal_amount > 0
         THEN /\ pcM' = "forward_match"
              /\ mLocal' = [current_balance |-> current_balance,
                            increase |-> increase,
                            amount |-> AmountToForward(increase,
                                                       pending_withdrawal_amount)]
              /\ mEvent' = [kind |-> "increase", increase |-> increase]
              /\ UNCHANGED <<mMem, mFile>>
         ELSE /\ FinishCheck(ClassifyDeposit(pending_deposit, increase),
                             pending_withdrawal_amount, current_balance, TRUE)
              /\ mEvent' = [kind |-> "classified", increase |-> increase,
                            forwarded |-> 0,
                            deposit |-> ClassifyDeposit(pending_deposit, increase)
                                          - pending_deposit]
    ELSE /\ FinishCheck(pending_deposit, pending_withdrawal_amount,
                        current_balance, FALSE)
         /\ mEvent' = [kind |-> "no_increase"]

\* run_monitor before its loop: self.last_balance = get_usdc_balance()
\* (0.0 when the read fails)
MStart ==
    /\ pcM = "boot"
    /\ \E current_balance \in {UsdcFromRaw(wallet), 0} :
         /\ last_balance' = current_balance
         /\ mEvent' = [kind |-> "start", loaded |-> last_balance,
                       balance |-> current_balance]
    /\ pcM' = "idle"
    /\ UNCHANGED <<wallet, pending_deposit, pending_withdrawal_amount, mFile, mLocal>>
    /\ UNCHANGED notM

\* `if self.pending_withdrawal_amount > 0 and current_balance > 0.1:`
PriorityForward_Mut(pending, current_balance) ==
    pending > 0 /\ current_balance > MinForwardBalance
                /\ current_balance > last_balance
PriorityForward(pending, current_balance) ==
    pending > 0 /\ current_balance > MinForwardBalance

\* check_for_balance_changes up to its first await after the balance read
MCheck ==
    /\ pcM = "idle"
    /\ \E current_balance \in {UsdcFromRaw(wallet), 0} :
         IF PriorityForward(pending_withdrawal_amount, current_balance)
         THEN /\ pcM' = "forward_pending"
              /\ mLocal' = [current_balance |-> current_balance, increase |-> 0,
                            amount |-> AmountToForward(current_balance,
                                                       pending_withdrawal_amount)]
              /\ mEvent' = [kind |-> "attempt", balance |-> current_balance,
                            last |-> last_balance,
                            pending |-> pending_withdrawal_amount]
              /\ UNCHANGED <<mMem, mFile>>
         ELSE SecondBranch(current_balance)
    /\ UNCHANGED wallet
    /\ UNCHANGED notM

\* send_usdc_to_vault(amount_to_forward) returns: a tx hash, or None
MForwardPending ==
    /\ pcM = "forward_pending"
    /\ LET amount_raw == ToRaw(mLocal.amount) IN
       \E tx_hash \in BOOLEAN :
         /\ tx_hash => (CanSign /\ wallet >= amount_raw)
         /\ IF tx_hash
            THEN /\ wallet' = wallet - amount_raw
                 /\ FinishCheck(pending_deposit,
                                pending_withdrawal_amount - mLocal.amount,
                                IF mLocal.current_balance - mLocal.amount < 0
                                THEN 0
                                ELSE mLocal.current_balance - mLocal.amount,
                                TRUE)
                 /\ mEvent' = [kind |-> "forwarded", amount |-> mLocal.amount,
                               earmarked |-> pending_deposit,
                               increase |-> mLocal.current_balance - last_balance]
            ELSE /\ UNCHANGED wallet
                 /\ SecondBranch(mLocal.current_balance)
    /\ UNCHANGED notM

\* send_usdc_to_vault(withdrawal_match) returns, and the rest of the branch
MForwardMatch ==
    /\ pcM = "forward_match"
    /\ LET amount_raw == ToRaw(mLocal.amount) IN
       \E tx_hash \in BOOLEAN :
         /\ tx_hash => (CanSign /\ wallet >= amount_raw)
         /\ wallet' = IF tx_hash THEN wallet - amount_raw ELSE wallet
         /\ LET pw == IF tx_hash
                      THEN pending_withdrawal_amount - mLocal.amount
                      ELSE pending_withdrawal_amount
                increase == IF tx_hash
                            THEN mLocal.increase - mLocal.amount
                            ELSE mLocal.increase
                pd == ClassifyDeposit(pending_deposit, increase)
            IN
            /\ FinishCheck(pd, pw, mLocal.current_balance, TRUE)
            /\ mEvent' = [kind |-> "classified", increase |-> mLocal.increase,
                          forwarded |-> IF tx_hash THEN mLocal.amount ELSE 0,
                          deposit |-> pd - pending_deposit]
    /\ UNCHANGED notM

\* `if tx_hash: self.pending_deposit = 0.0`
PendingAfterDeposit_Mut(tx_hash, pd) == 0
PendingAfterDeposit(tx_hash, pd) == IF tx_hash THEN 0 ELSE pd

\* auto_deposit_if_pending: deposit_to_extended(self.pending_deposit) returns
MDeposit ==
    /\ pcM = "depositing"
    /\ LET amount_raw == ToRaw(pending_deposit) IN
       \E tx_hash \in BOOLEAN :
         /\ tx_hash => (CanSign /\ wallet >= amount_raw)
         /\ mEvent' = [kind |-> "deposit", amount |-> pending_deposit,
                       ok |-> tx_hash, file |-> mFile]
         /\ pending_deposit' = PendingAfterDeposit(tx_hash, pending_deposit)
         /\ IF tx_hash
            THEN /\ wallet' = wallet - amount_raw
                 /\ pcM' = "strategy"
                 /\ UNCHANGED mFile
            ELSE /\ UNCHANGED wallet
                 /\ pcM' = "idle"
                 /\ mFile' = StateRecord(pending_deposit,
                                         pending_withdrawal_amount, last_balance)
    /\ UNCHANGED <<pending_withdrawal_amount, last_balance, mLocal>>
    /\ UNCHANGED notM

\* execute_strategy returns or raises; back in run_monitor, _save_state
MStrategy ==
    /\ pcM = "strategy"
    /\ pcM' = "idle"
    /\ mFile' = StateRecord(pending_deposit, pending_withdrawal_amount,
                            last_balance)
    /\ mEvent' = NoRec
    /\ UNCHANGED <<wallet, mMem, mLocal>>
    /\ UNCHANGED notM

\* expect_withdrawal(amount), called by prepare_vault_withdrawal between any
\* two awaits of the monitor
MExpect ==
    /\ \E amount \in ExpectAmounts :
         /\ pending_withdrawal_amount + amount <= UsdcFromRaw(MaxMonUsdc * 1000000)
         /\ pending_withdrawal_amount' = pending_withdrawal_amount + amount
         /\ mFile' = StateRecord(pending_deposit, pending_withdrawal_amount',
                                 last_balance)
         /\ mEvent' = [kind |-> "expect", amount |-> amount]
    /\ UNCHANGED <<wallet, pending_deposit, last_balance, pcM, mLocal>>
    /\ UNCHANGED notM

\* ---- environment of the monitor: USDC arrives in the operator wallet (the
\* small amount only into an empty wallet, to keep the balances few)
EnvMonCredit ==
    /\ \E c \in MonCredits :
         /\ wallet + c <= MaxMonUsdc * 1000000
         /\ c < 1000000 => wallet = 0
         /\ wallet' = wallet + c
    /\ UNCHANGED mVars
    /\ UNCHANGED notM

\* ---- process restart: VaultMonitor() is constructed anew and _load_state
\* reads the file when it exists; run_monitor is then started
MRestart ==
    /\ pending_deposit' =
         IF mFile = NoFile THEN 0 ELSE mFile.pending_deposit
    /\ pending_withdrawal_amount' =
         IF mFile = NoFile THEN 0 ELSE mFile.pending_withdrawal_amount
    /\ last_balance' =
         IF mFile = NoFile THEN 0 ELSE mFile.last_balance
    /\ pcM' = "boot"
    /\ mLocal' = NoLocal
    /\ mEvent' = [kind |-> "restart", pending_deposit |-> pending_deposit,
                  pending_withdrawal_amount |-> pending_withdrawal_amount,
                  stage |-> pcM]
    /\ UNCHANGED <<wallet, mFile>>
    /\ UNCHANGED notM

\* ================================================================
\* PositionManager (services/position_manager.py) and
\* UnboundVaultStrategy (strategy.py)
\* ================================================================
\* Scale: in this part every USD amount (equity, wbtc_value_usd, the value
\* of the position) is in whole USD and the mark price is 1, so that a size
\* in BTC and its value in USD are the same number; rates are in 1e-6.

\* self.negative_funding_threshold = -0.0001
negative_funding_threshold == -100
\* settings.funding_threshold_open = 0.000001
open_threshold == 1
\* settings.funding_threshold_close = -0.000001
close_threshold == -1
\* settings.leverage = 2.0
leverage == 2
\* DELTA_THRESHOLD = 0.05, in percent
DELTA_THRESHOLD == 5
\* `adjustment > 10` / `adjustment < -10`
MinAdjustment == 10

\* funding rates the market takes: -0.02%, -0.005%, 0, +0.01%
FundingRates == {-200, -50, 0, 100}
RiskValues == {0, 100}
HedgeValues == {0, 80, 88, 92, 120}
PosEquities == {0, 50, 80, 200}

NoState == [funding_rate |-> 0, has_position |-> FALSE, position_value |-> 0,
            wbtc_value_usd |-> 0, equity |-> 0, total_nav |-> 0]

\* get_funding_rate: float(stats.get("fundingRate", 0)), 0 when the market
\* data carries no rate
ReadFunding == {funding_rate, 0}

\* get_state: total_nav = wbtc_value_usd + extended_equity; the position is
\* None when the exchange lists no SHORT position
GetState(fr) ==
    [funding_rate |-> fr,
     has_position |-> position_value > 0,
     position_value |-> position_value,
     wbtc_value_usd |-> wbtc_value_usd,
     equity |-> equity,
     total_nav |-> wbtc_value_usd + equity]

\* abs(state.delta) > DELTA_THRESHOLD with
\* delta = (long_exposure - short_exposure) / total_nav if total_nav > 0 else 0
DeltaExceeds(state) ==
    /\ state.total_nav > 0
    /\ Abs(state.wbtc_value_usd - state.position_value) * 100
          > DELTA_THRESHOLD * state.total_nav

Adjustment(state) == state.wbtc_value_usd - state.position_value

AboveFloor_Mut(amount) == amount > 0
AboveFloor(amount) == amount > MinAdjustment

should_open_position(fr, has_position) ==
    IF has_position THEN FALSE ELSE fr > open_threshold

should_close_position(fr, has_position) ==
    IF ~has_position THEN FALSE ELSE fr < close_threshold

\* usable_balance * leverage with usable_balance = available_balance * 0.9
calculate_position_size(available_balance) ==
    (available_balance * 9 * leverage) \div 10

\* the branch execute_strategy takes on a StrategyState
Decision(state) ==
    IF /\ DeltaExceeds(state)
       /\ state.wbtc_value_usd > 0
       /\ AboveFloor(Adjustment(state))
    THEN "REBALANCE_SHORT_UP"
    ELSE IF /\ DeltaExceeds(state)
            /\ state.wbtc_value_usd > 0
            /\ AboveFloor(-Adjustment(state))
    THEN "REBALANCE_SHORT_DOWN"
    ELSE IF should_open_position(state.funding_rate, state.has_position)
    THEN "OPEN_SHORT"
    ELSE IF should_close_position(state.funding_rate, state.has_position)
    THEN "CLOSE_POSITION"
    ELSE "HOLD"

\* open_short_position: size_btc = (size_usd * 0.95) / mark_price
OrderSizeUsd(size_usd) == (size_usd * 95) \div 100

\* close_position: `if close_size > position.size: close_size = position.size`
CloseSize(size, position_size) == Min(size, position_size)

PosStart ==
    /\ position_closed_due_to_funding = FALSE
    /\ pcP = "idle"
    /\ pcS = "idle"
    /\ sState = NoState
    /\ pEvent = NoRec
    /\ sEvent = NoRec
    /\ belowSinceClose = FALSE

PosIdle ==
    /\ PosStart
    /\ funding_rate = 0
    /\ position_value = 0
    /\ wbtc_value_usd = 0

\* ---- _check_funding_rate up to its first state change: the rate is read
\* (a raise is logged); below the threshold with the flag unset the close
\* follows, at or above it a set flag is cleared
PCheckFunding ==
    /\ pcP = "idle"
    /\ \/ /\ pEvent' = [kind |-> "error"]
          /\ UNCHANGED <<position_closed_due_to_funding, pcP>>
       \/ \E fr \in ReadFunding :
            IF fr < negative_funding_threshold
            THEN IF ~position_closed_due_to_funding
                 THEN /\ pcP' = "closing"
                      /\ pEvent' = [kind |-> "closing", funding |-> fr]
                      /\ UNCHANGED position_closed_due_to_funding
                 ELSE /\ pEvent' = [kind |-> "latched", funding |-> fr]
                      /\ UNCHANGED <<position_closed_due_to_funding, pcP>>
            ELSE IF position_closed_due_to_funding
                 THEN /\ position_closed_due_to_funding' = FALSE
                      /\ pEvent' = [kind |-> "cleared", funding |-> fr,
                                    actual |-> funding_rate]
                      /\ UNCHANGED pcP
                 ELSE /\ pEvent' = [kind |-> "open", funding |-> fr]
                      /\ UNCHANGED <<position_closed_due_to_funding, pcP>>
    /\ sEvent' = NoRec
    /\ UNCHANGED <<pMarket, pcS, sState, belowSinceClose>>
    /\ UNCHANGED notP

\* ---- _close_all_positions (close_position of the whole position; a raise
\* is logged), then the flag is set
PCloseAll ==
    /\ pcP = "closing"
    /\ \E result \in {"success", "failed", "none", "no_position"} :
         /\ result = "no_position" <=> position_value = 0
         /\ position_value' = IF result = "success" THEN 0 ELSE position_value
         /\ pEvent' = [kind |-> "close_all", result |-> result]
    /\ position_closed_due_to_funding' = TRUE
    /\ belowSinceClose' = (funding_rate < negative_funding_threshold)
    /\ pcP' = "idle"
    /\ sEvent' = NoRec
    /\ UNCHANGED <<funding_rate, wbtc_value_usd, pcS, sState>>
    /\ UNCHANGED notP

\* ---- execute_strategy: get_state (a raise is passed to the caller) and the
\* choice of the branch
SGetState ==
    /\ pcS = "idle"
    /\ \/ /\ sEvent' = [kind |-> "ERROR"]
          /\ UNCHANGED <<pcS, sState>>
       \/ \E fr \in ReadFunding :
            LET state == GetState(fr)
                action == Decision(state)
            IN  IF action = "HOLD"
                THEN /\ sEvent' = [kind |-> "HOLD", state |-> state]
                     /\ UNCHANGED <<pcS, sState>>
                ELSE /\ pcS' = action
                     /\ sState' = state
                     /\ sEvent' = [kind |-> "decided", action |-> action,
                                   state |-> state]
    /\ pEvent' = NoRec
    /\ UNCHANGED <<pMarket, position_closed_due_to_funding, pcP,
                   belowSinceClose>>
    /\ UNCHANGED notP

\* ---- open_short_position(market, adjustment) of the rebalancing branch, or
\* open_short_position(market, position_size) of the opening branch
SOpenShort ==
    /\ pcS \in {"REBALANCE_SHORT_UP", "OPEN_SHORT"}
    /\ LET size_usd == IF pcS = "REBALANCE_SHORT_UP"
                       THEN Adjustment(sState)
                       ELSE IF sState.wbtc_value_usd > 0
                            THEN sState.wbtc_value_usd
                            ELSE calculate_position_size(sState.equity)
       IN  \E status \in {"success", "failed", "FAILED"} :
             /\ OrderSizeUsd(size_usd) = 0 => status = "FAILED"
             /\ position_value' = IF status = "success"
                                  THEN position_value + OrderSizeUsd(size_usd)
                                  ELSE position_value
             /\ sEvent' = [kind |-> pcS, adjustment |-> size_usd,
                           status |-> status, state |-> sState,
                           before |-> position_value,
                           after |-> position_value',
                           latched |-> position_closed_due_to_funding,
                           below |-> belowSinceClose]
    /\ pcS' = "idle"
    /\ sState' = NoState
    /\ pEvent' = NoRec
    /\ UNCHANGED <<funding_rate, wbtc_value_usd, position_closed_due_to_funding,
                   pcP, belowSinceClose>>
    /\ UNCHANGED notP

\* ---- close_position(market, size=btc_to_close) of the rebalancing branch,
\* or close_position(market) of the closing branch
SClosePosition ==
    /\ pcS \in {"REBALANCE_SHORT_DOWN", "CLOSE_POSITION"}
    /\ LET size == IF pcS = "REBALANCE_SHORT_DOWN"
                   THEN Abs(Adjustment(sState))
                   ELSE position_value
       IN  \E status \in {"success", "failed", "FAILED", "no_position"} :
             /\ status = "no_position" <=> position_value = 0
             /\ position_value' = IF status = "success"
                                  THEN position_value
                                         - CloseSize(size, position_value)
                                  ELSE position_value
             /\ sEvent' = [kind |-> pcS, adjustment |-> Adjustment(sState),
                           status |-> status, state |-> sState,
                           before |-> position_value,
                           after |-> position_value']
    /\ pcS' = "idle"
    /\ sState' = NoState
    /\ pEvent' = NoRec
    /\ UNCHANGED <<funding_rate, wbtc_value_usd, position_closed_due_to_funding,
                   pcP, belowSinceClose>>
    /\ UNCHANGED notP

\* ---- environment: the market's funding rate moves
EnvFunding ==
    /\ \E f \in FundingRates \ {funding_rate} :
         /\ funding_rate' = f
         /\ belowSinceClose' =
               (belowSinceClose /\ f < negative_funding_threshold)
    /\ UNCHANGED <<position_value, wbtc_value_usd, pProg, pEvent, sEvent>>
    /\ UNCHANGED notP


\* ================================================================
\* The polling loops: start / run_loop / run_monitor and stop
\* ================================================================
\* tasks that may run one object's loop at a time
MaxTasks == 2
Tasks == 1 .. MaxTasks

\* created once by the startup event of the API
StartupLoops == {"deposit", "withdrawal", "position", "nav"}
\* started by an endpoint of the API that tests `running` first
EndpointLoops == {"rebalancer", "monitor"}
Loops == StartupLoops \cup EndpointLoops

\* what a tick may end with: every call answered, a call that returned its
\* failure value, an exception out of the tick's body
TickOutcomes == {"ok", "failed", "raise"}

\* `except Exception` around the body of the loop
Caught_Mut(outcome) == outcome # "raise"
Caught(outcome) == TRUE

\* `while self.running`
LoopCheck(flag) == flag

Live(t) == lTasks[t] \in {"initial_balance", "tick", "sleep"}

LoopStart ==
    /\ running = FALSE
    /\ lTasks = [t \in Tasks |-> "none"]
    /\ lEvent = NoRec
    /\ lStopped = {}

LoopIdle ==
    /\ loop = "deposit"
    /\ LoopStart

\* ---- startup_event: asyncio.create_task(<service>.start())
LStartup ==
    /\ loop \in StartupLoops
    /\ \A t \in Tasks : lTasks[t] = "none"
    /\ lTasks' = [lTasks EXCEPT ![1] = "scheduled"]
    /\ lEvent' = [kind |-> "create_task", task |-> 1]
    /\ UNCHANGED <<loop, running, lStopped>>
    /\ UNCHANGED notL

\* ---- /api/rebalancer/start, /api/wallet/start-monitor:
\* `if running: return already_running`, else the loop is added as a
\* background task
LStartEndpoint ==
    /\ loop \in EndpointLoops
    /\ ~running
    /\ \E t \in Tasks :
         /\ lTasks[t] = "none"
         /\ \A u \in Tasks : u < t => lTasks[u] # "none"
         /\ lTasks' = [lTasks EXCEPT ![t] = "scheduled"]
         /\ lEvent' = [kind |-> "add_task", task |-> t]
    /\ UNCHANGED <<loop, running, lStopped>>
    /\ UNCHANGED notL

\* ---- the task begins: self.running = True; run_monitor then awaits the
\* initial balance, the other loops enter `while self.running` at once
LBegin(t) ==
    /\ lTasks[t] = "scheduled"
    /\ running' = TRUE
    /\ lTasks' = [lTasks EXCEPT ![t] = IF loop = "monitor"
                                       THEN "initial_balance"
                                       ELSE "tick"]
    /\ lEvent' = [kind |-> "begin", task |-> t]
    /\ UNCHANGED <<loop, lStopped>>
    /\ UNCHANGED notL

\* ---- run_monitor: the initial get_usdc_balance returned (0.0 when the call
\* failed), then `while self.running`
LInitialBalance(t) ==
    /\ lTasks[t] = "initial_balance"
    /\ lTasks' = [lTasks EXCEPT ![t] = IF LoopCheck(running)
                                       THEN "tick" ELSE "done"]
    /\ lEvent' = [kind |-> "wake", task |-> t, running |-> running,
                  next |-> lTasks'[t]]
    /\ UNCHANGED <<loop, running, lStopped>>
    /\ UNCHANGED notL

\* ---- the body of the loop ran to its end: the tick's calls returned or an
\* exception reached the loop's handler; asyncio.sleep follows
LTick(t) ==
    /\ lTasks[t] = "tick"
    /\ \E outcome \in TickOutcomes :
         /\ lTasks' = [lTasks EXCEPT ![t] = IF Caught(outcome)
                                            THEN "sleep" ELSE "done"]
         /\ lEvent' = [kind |-> "tick_end", task |-> t, outcome |-> outcome,
                       stopped |-> t \in lStopped]
    /\ UNCHANGED <<loop, running, lStopped>>
    /\ UNCHANGED notL

\* ---- asyncio.sleep returned, then `while self.running`
LWake(t) ==
    /\ lTasks[t] = "sleep"
    /\ lTasks' = [lTasks EXCEPT ![t] = IF LoopCheck(running)
                                       THEN "tick" ELSE "done"]
    /\ lEvent' = [kind |-> "wake", task |-> t, running |-> running,
                  next |-> lTasks'[t]]
    /\ UNCHANGED <<loop, running, lStopped>>
    /\ UNCHANGED notL

\* ---- stop(): self.running = False
LStop ==
    /\ running' = FALSE
    /\ lStopped' = lStopped \cup {t \in Tasks : Live(t)}
    /\ lEvent' = [kind |-> "stop", alive |-> {t \in Tasks : Live(t)}]
    /\ UNCHANGED <<loop, lTasks>>
    /\ UNCHANGED notL

\* ================================================================
\* WithdrawalProcessor._start_processing, steps 1 and 2: the proportional
\* close of the hedge and the withdrawal request
\* (services/withdrawal_processor.py, extended_client.py)
\* ================================================================
\* Sizes (BTC) and amounts (USD) are integers in 1e-5 of the float the code
\* holds, so that two floats compare as their integers do.

\* the mark price, USD per BTC
MarkPrice == 4
\* get_positions returned no position of the market
NoPosition == -1
\* close_position(market): `size` is None
NoSize == -2

\* sizes the hedge may have, and the USDC legs of the withdrawals started
HedgeSizes == {NoPosition, 0, 1, 3, 10}
CloseAmounts == {2, 10}
\* restarts of one request are followed while the size closed for it is at
\* most this
MaxClosed == 12

\* `close_size = usdc_amount * settings.leverage`
ProportionalCloseSize(usdc_amount) == usdc_amount * leverage

\* `if abs(btc_position.size) > close_size:` -- the partial close
IsPartialClose(size, close_size) == Abs(size) > close_size

\* close_position(market, size): the amount of the BUY order it places, 0
\* when it returns without one ("no_position", "too_small").  round(., 5) keeps
\* a multiple of 1e-5, and 0.00001 is one unit
CloseOrderAmount(position, size) ==
    IF position = NoPosition \/ position <= 0
    THEN 0
    ELSE LET wanted == IF size = NoSize THEN position ELSE size
             close_size == IF wanted > position THEN position ELSE wanted
         IN  IF close_size < 1 THEN 0 ELSE close_size

\* _close_proportional_position: `return True` at its end, `return False` in
\* its handler
ClosedResult_Mut(raised) == raised
ClosedResult(raised) == ~raised

CloseIdle ==
    /\ btc_position_size = NoPosition
    /\ close_usdc_amount = 0
    /\ pcC = "idle"
    /\ cEvent = NoRec
    /\ closed_total = 0

\* _start_processing up to the ProcessingEntry, for a withdrawal whose USDC
\* leg is extended_usdc
CStartProcessing ==
    /\ pcC = "idle"
    /\ \E amount \in CloseAmounts : close_usdc_amount' = amount
    /\ pcC' = "closing"
    /\ cEvent' = NoRec
    /\ closed_total' = 0
    /\ UNCHANGED btc_position_size
    /\ UNCHANGED notC

\* the next tick finds the request PENDING and without an entry (the entry
\* was deleted when the withdrawal request failed): _start_processing again,
\* for the same request and the same amount
CRestartProcessing ==
    /\ pcC = "retry"
    /\ closed_total <= MaxClosed
    /\ pcC' = "closing"
    /\ cEvent' = [kind |-> "restart", amount |-> close_usdc_amount]
    /\ UNCHANGED <<btc_position_size, close_usdc_amount, closed_total>>
    /\ UNCHANGED notC

\* Step 1: _close_proportional_position(extended_usdc).  get_positions may
\* raise; close_position catches what its own calls raise and returns None
CCloseProportional ==
    /\ pcC = "closing"
    /\ \E read_ok \in BOOLEAN, order_result \in {"success", "failed", "none"} :
         LET close_size == ProportionalCloseSize(close_usdc_amount)
             partial == IsPartialClose(btc_position_size, close_size)
             called == read_ok /\ btc_position_size # NoPosition
             order == IF called
                      THEN CloseOrderAmount(btc_position_size,
                                            IF partial THEN close_size ELSE NoSize)
                      ELSE 0
             filled == IF order_result = "success" THEN order ELSE 0
         IN
         /\ btc_position_size' = btc_position_size - filled
         /\ closed_total' = closed_total + filled
         /\ cEvent' = [kind |-> "close", read |-> read_ok,
                       size |-> btc_position_size,
                       usdc_amount |-> close_usdc_amount,
                       partial |-> called /\ partial, order |-> order,
                       returned |-> ClosedResult(~read_ok)]
    /\ pcC' = "withdrawing"
    /\ UNCHANGED close_usdc_amount
    /\ UNCHANGED notC

\* Step 2: withdraw_from_extended(extended_usdc), whatever step 1 returned;
\* `else: del self.processing_withdrawals[withdrawal.request_id]`
CWithdrawRequest ==
    /\ pcC = "withdrawing"
    /\ \E withdrawal_requested \in BOOLEAN :
         /\ cEvent' = [kind |-> "withdraw_request", amount |-> close_usdc_amount,
                       ok |-> withdrawal_requested]
         /\ pcC' = IF withdrawal_requested THEN "idle" ELSE "retry"
    /\ UNCHANGED <<btc_position_size, close_usdc_amount, closed_total>>
    /\ UNCHANGED notC

\* the hedge as the deposits and the strategy leave it
EnvHedge ==
    /\ \E size \in HedgeSizes \ {btc_position_size} : btc_position_size' = size
    /\ UNCHANGED <<close_usdc_amount, pcC, cEvent, closed_total>>
    /\ UNCHANGED notC

\* ================================================================
\* Specifications
\* ================================================================
WIdle ==
    /\ wallet = 0
    /\ processing_withdrawals = << >>
    /\ pcW = "idle"
    /\ wqlen = 0
    /\ wi = 0
    /\ completed = {}
    /\ wobs = NoObs
    /\ wEvent = NoRec
    /\ wdIssued = {}
    /\ forwarded = {}
    /\ marked = {}
    /\ wdLost = {}

InitW ==
    /\ wstatus \in [ReqIds -> WithdrawalStatus]
    /\ WIdle
    /\ NavIdle
    /\ equity = 0
    /\ chainNav = 0
    /\ DepIdle
    /\ MonIdle
    /\ PosIdle
    /\ LoopIdle
    /\ CloseIdle
    /\ Configured

\* the reporter starts with last_nav = 0 whatever the vault already holds
InitNav ==
    /\ wstatus = [id \in ReqIds |-> "PENDING"]
    /\ WIdle
    /\ NavIdle
    /\ equity \in EquitySet
    /\ chainNav \in {0, ToRaw(200)}
    /\ DepIdle
    /\ MonIdle
    /\ PosIdle
    /\ LoopIdle
    /\ CloseIdle
    /\ Configured

InitDep ==
    /\ wstatus = [id \in ReqIds |-> "PENDING"]
    /\ WIdle
    /\ NavIdle
    /\ equity = 0
    /\ chainNav = 0
    /\ DepIdle
    /\ MonIdle
    /\ PosIdle
    /\ LoopIdle
    /\ CloseIdle
    /\ Configured

InitMon ==
    /\ wstatus = [id \in ReqIds |-> "PENDING"]
    /\ WIdle
    /\ NavIdle
    /\ equity = 0
    /\ chainNav = 0
    /\ DepIdle
    /\ MonIdle
    /\ PosIdle
    /\ LoopIdle
    /\ CloseIdle
    /\ Configured

NextW ==
    \/ WTickBegin
    \/ WScanItem
    \/ WValuation
    \/ WClosePosition
    \/ WWithdrawRequest
    \/ WCheckItem
    \/ WForward
    \/ WMarkReady
    \/ WCheckEnd
    \/ EnvCredit
    \/ EnvUserCancel
    \/ EnvUserComplete

SpecW == InitW /\ [][NextW]_vars

\* the withdrawal loop with crashes and restarts of the process
NextWCrash ==
    \/ NextW
    \/ WRestart

SpecWCrash == InitW /\ [][NextWCrash]_vars

\* the scheduled path never gets as far as its invocation (see
\* get_extended_equity)
NextNav ==
    \/ NReport
    \/ FForce
    \/ FForceDone
    \/ RRunOnce
    \/ RSyncNav
    \/ EnvEquity
    \/ EnvClock

SpecNav == InitNav /\ [][NextNav]_vars

\* the scheduled reporter's guards and update, given an equity
NextReport ==
    \/ NReportGiven
    \/ NReportDone
    \/ EnvEquity
    \/ EnvClock

SpecReport == InitNav /\ [][NextReport]_vars

\* the services of a deployment without the operator's key, each followed on
\* its own (`loop` names the one the behaviour follows); the steps behind a
\* signed transaction that succeeded are out of reach and left out
InitReadOnly ==
    /\ wstatus = [id \in ReqIds |-> "PENDING"]
    /\ WIdle
    /\ NavIdle
    /\ equity \in EquitySet
    /\ chainNav = ToRaw(200)
    /\ DepIdle
    /\ MonIdle
    /\ PosIdle
    /\ loop \in Loops \ {"position"}
    /\ LoopStart
    /\ CloseIdle
    /\ operator_private_key = ""

NextReadOnly ==
    \/ /\ loop = "deposit"
       /\ (DTickBegin \/ DScanItem \/ DMint \/ EnvNewDeposit)
    \/ /\ loop = "withdrawal"
       /\ \/ WTickBegin
          \/ WScanItem
          \/ WValuation
          \/ WClosePosition
          \/ WWithdrawRequest
          \/ WCheckItem
          \/ WForward
          \/ WCheckEnd
          \/ EnvCredit
          \/ EnvUserCancel
    \/ /\ loop = "nav"
       /\ (NReport \/ FForce \/ FForceDone \/ EnvEquity \/ EnvClock)
    \/ /\ loop = "rebalancer"
       /\ (RRunOnce \/ RSyncNav \/ EnvEquity)
    \/ /\ loop = "monitor"
       /\ \/ MStart
          \/ MCheck
          \/ MForwardPending
          \/ MForwardMatch
          \/ MDeposit
          \/ MExpect
          \/ EnvMonCredit

SpecReadOnly == InitReadOnly /\ [][NextReadOnly]_vars

\* the close step of a withdrawal, over the sizes of the hedge
InitClose ==
    /\ wstatus = [id \in ReqIds |-> "PENDING"]
    /\ WIdle
    /\ NavIdle
    /\ equity = 0
    /\ chainNav = 0
    /\ DepIdle
    /\ MonIdle
    /\ PosIdle
    /\ LoopIdle
    /\ Configured
    /\ btc_position_size \in HedgeSizes
    /\ close_usdc_amount = 0
    /\ pcC = "idle"
    /\ cEvent = NoRec
    /\ closed_total = 0

NextClose ==
    \/ CStartProcessing
    \/ CRestartProcessing
    \/ CCloseProportional
    \/ CWithdrawRequest
    \/ EnvHedge

SpecClose == InitClose /\ [][NextClose]_vars

NextDep ==
    \/ DTickBegin
    \/ DScanItem
    \/ DMint
    \/ DBalance
    \/ DDepositExtended
    \/ DOpenShort
    \/ EnvNewDeposit

SpecDep == InitDep /\ [][NextDep]_vars

NextMon ==
    \/ MStart
    \/ MCheck
    \/ MForwardPending
    \/ MForwardMatch
    \/ MDeposit
    \/ MStrategy
    \/ MExpect
    \/ EnvMonCredit

SpecMon == InitMon /\ [][NextMon]_vars

\* the monitor with crashes and restarts of the process
NextMonCrash ==
    \/ NextMon
    \/ MRestart

SpecMonCrash == InitMon /\ [][NextMonCrash]_vars

\* the position manager and the strategy on one market
InitPos ==
    /\ wstatus = [id \in ReqIds |-> "PENDING"]
    /\ WIdle
    /\ NavIdle
    /\ equity \in PosEquities
    /\ chainNav = 0
    /\ DepIdle
    /\ MonIdle
    /\ LoopIdle
    /\ CloseIdle
    /\ Configured
    /\ PosStart
    /\ funding_rate \in FundingRates
    /\ position_value \in HedgeValues
    /\ wbtc_value_usd \in RiskValues

NextPos ==
    \/ PCheckFunding
    \/ PCloseAll
    \/ SGetState
    \/ SOpenShort
    \/ SClosePosition
    \/ EnvFunding

SpecPos == InitPos /\ [][NextPos]_vars

\* one service's loop, its tasks and its stop flag
InitLoop ==
    /\ wstatus = [id \in ReqIds |-> "PENDING"]
    /\ WIdle
    /\ NavIdle
    /\ equity = 0
    /\ chainNav = 0
    /\ DepIdle
    /\ MonIdle
    /\ PosIdle
    /\ loop \in Loops
    /\ LoopStart
    /\ CloseIdle
    /\ Configured

NextLoop ==
    \/ LStartup
    \/ LStartEndpoint
    \/ \E t \in Tasks : LBegin(t)
    \/ \E t \in Tasks : LInitialBalance(t)
    \/ \E t \in Tasks : LTick(t)
    \/ \E t \in Tasks : LWake(t)
    \/ LStop

\* a task that can take a step takes it: a scheduled task begins, an awaited
\* call and a sleep return
LoopFairness ==
    \A t \in Tasks :
       /\ WF_vars(LBegin(t))
       /\ WF_vars(LInitialBalance(t))
       /\ WF_vars(LTick(t))
       /\ WF_vars(LWake(t))

SpecLoop == InitLoop /\ [][NextLoop]_vars /\ LoopFairness


\* ================================================================
\* Properties of the withdrawal state machine
\* ================================================================
UniqueKeys(d) == \A j, k \in 1 .. Len(d) : d[j].id = d[k].id => j = k
StartPhase == {"valuing", "closing", "withdrawing"}
CheckPhase == {"check", "forward", "mark"}

\* C1 -- Withdrawal dedup: a request_id has at most one ProcessingEntry at a
\* time, and _start_processing is never invoked for a request_id that is
\* present in processing_withdrawals.
C1_WithdrawalDedup ==
    /\ UniqueKeys(processing_withdrawals)
    /\ wEvent.kind = "start" => ~wEvent.tracked
\* a PENDING request was observed while its entry existed, and was skipped
C1_Witness ==
    /\ wEvent.kind = "skip"
    /\ wEvent.status = "PENDING"
    /\ wEvent.tracked

\* C2 -- (as claimed) the settlement amount of a request is transferred from
\* the operator wallet to the vault at most once and mark_withdrawal_ready
\* takes effect at most once, whichever of the two calls fails.
C2_NoDoubleProcessing ==
    /\ ~(wEvent.kind = "forward" /\ wEvent.ok /\ wEvent.again)
    /\ ~(wEvent.kind = "mark" /\ wEvent.ok /\ wEvent.again)

C8_RemovedOnlyAfterSuccess ==
    [][ /\ \A id \in ReqIds :
             ( /\ pcW \in CheckPhase
               /\ id \in Keys(processing_withdrawals)
               /\ id \notin Keys(processing_withdrawals') )
             => (id \in forwarded /\ id \in marked)
        /\ (pcW = "scan" /\ pcW' = "valuing")
             => wi \notin Keys(processing_withdrawals)
      ]_vars
\* a tick ended with an entry kept although its amount was forwarded: the
\* mark_withdrawal_ready that followed had failed
C8_Witness ==
    /\ pcW = "idle"
    /\ \E id \in Keys(processing_withdrawals) :
         id \in forwarded /\ id \notin marked

\* C9 -- (as claimed) when the valuation, the hedge close or the exchange
\* withdrawal request fails, the request has no ProcessingEntry at the end of
\* _start_processing.
C9_FailureClearsEntry ==
    (wEvent.kind = "start_end" /\ wEvent.failed) => ~wEvent.entry

\* C10 -- only requests observed PENDING are passed to _start_processing, so
\* the hedge close and the exchange withdrawal are issued only for a request
\* that was observed PENDING.
C10_OnlyPendingStarted ==
    /\ wEvent.kind = "start" => wEvent.status = "PENDING"
    /\ wEvent.kind = "close" => wEvent.status = "PENDING"
    /\ pcW \in StartPhase => wobs.status = "PENDING"
\* a request observed READY, COMPLETED, CANCELLED or PROCESSING was passed over
C10_Witness ==
    /\ wEvent.kind = "skip"
    /\ wEvent.status \in {"READY", "COMPLETED", "CANCELLED", "PROCESSING"}

\* C11 -- (as claimed) after a crash and restart, re-entering a request from
\* its first step causes no second exchange withdrawal for a request whose
\* exchange withdrawal had been accepted before the crash, and no second
\* forward to the vault for it.
C11_SafeReentry ==
    /\ ~( /\ wEvent.kind = "start_end"
          /\ wEvent.withdraw = "success"
          /\ wEvent.id \in wdLost )
    /\ ~( /\ wEvent.kind = "forward"
          /\ wEvent.ok /\ wEvent.again
          /\ wEvent.id \in wdLost )


\* ================================================================
\* Properties of the NAV paths
\* ================================================================
\* |new - old| / old <= 5%
Within5Percent(new, old) == Abs(new - old) * 100 <= 5 * old

\* C4 -- NAV rate limit of the scheduled reporter: with last_nav > 0 it
\* invokes update_nav only for a value within 5% of last_nav (5% itself
\* allowed); a value it skips is more than 5% away, and after the skip no
\* invocation is in flight and last_nav is what it was.
C4_ScheduledRateLimit ==
    /\ (nEvent.kind = "update_nav" /\ nEvent.path = "scheduled" /\ nEvent.last > 0)
         => Within5Percent(nEvent.nav, nEvent.last)
    /\ (nEvent.kind = "nav_skip" /\ nEvent.path = "scheduled")
         => /\ nEvent.last > 0
            /\ ~Within5Percent(nEvent.nav, nEvent.last)
            /\ pcN = "idle"
            /\ last_nav = nEvent.last
\* last reported 1,000,000 and proposed 1,060,000 (6%), in the model's units:
\* the update was skipped and last_nav stays
C4_Witness ==
    /\ nEvent.kind = "nav_skip"
    /\ nEvent.last = 200
    /\ nEvent.nav = 212
    /\ last_nav = 200

\* C5 -- (as claimed) force_update invokes update_nav only for a value within
\* 5% of last_nav, unless last_nav is 0.
C5_ForceRateLimited ==
    (nEvent.kind = "update_nav" /\ nEvent.path = "force" /\ nEvent.last > 0)
       => Within5Percent(nEvent.nav, nEvent.last)

\* C6 -- (as claimed) every update_nav invocation, from whichever path,
\* carries a value within 5% of the NAV the vault holds, unless the vault
\* holds none yet.
C6_NoNavJump ==
    (nEvent.kind = "update_nav" /\ nEvent.chain > 0)
       => Within5Percent(nEvent.raw, nEvent.chain)

\* ================================================================
\* Properties of the deposit scan
\* ================================================================
\* C3 -- Idempotent deposit scan: process_deposits is never invoked for an
\* entry read with processed = true, nor for an entry the vault already
\* holds as processed, so a second scan with no new entries repeats no mint.
C3_IdempotentScan ==
    /\ dEvent.kind = "mint" =>
         (~dEvent.read_processed /\ ~dEvent.chain_processed)
    /\ pcD = "mint" => ~dobs.processed
    /\ \A id \in minted : deposits[id + 1].processed
\* a later scan met an entry minted by an earlier invocation and skipped it
C3_Witness ==
    /\ dEvent.kind = "skip"
    /\ dEvent.why = "processed"
    /\ dEvent.id \in minted

\* C12 -- (as claimed) a deposit whose forward to the exchange failed is taken
\* up again by the next scan: a scan never passes over, as already processed,
\* an entry whose settlement amount was not forwarded to the exchange.
C12_FailedForwardRetried ==
    (dEvent.kind = "skip" /\ dEvent.why = "processed")
       => dEvent.id \in deposited

DepositSteps == {"mint", "balance", "deposit", "short"}

C14_NoFundsInvented ==
    pending_deposit <= UsdcFromRaw(wallet)

C16_ReloadKeepsPending ==
    mEvent.kind = "restart" =>
       /\ pending_deposit = mEvent.pending_deposit
       /\ pending_withdrawal_amount = mEvent.pending_withdrawal_amount

\* C17 -- (as claimed) after a restart with a persisted record the monitor
\* starts its first balance check from the persisted last_balance.
C17_StartsFromPersistedBalance ==
    (mEvent.kind = "start" /\ mFile # NoFile) =>
       last_balance = mFile.last_balance


\* ================================================================
\* Properties of the funding latch and the delta rebalancing
\* ================================================================
\* C18 -- (as claimed, last part) the closed-due-to-funding flag is cleared
\* only by a check that read a positive funding rate.
C18_ClearedOnlyWhenPositive ==
    pEvent.kind = "cleared" => pEvent.funding > 0

\* C19 -- (as claimed) while the flag is latched and funding has stayed below
\* the negative threshold since the close, no order that opens or increases
\* the short is placed.
C19_NoOpenWhileLatched ==
    (/\ sEvent.kind \in {"REBALANCE_SHORT_UP", "OPEN_SHORT"}
     /\ sEvent.status = "success")
       => ~(sEvent.latched /\ sEvent.below)

\* the state a strategy pass decided on, when the last step was a decision
Decided == sEvent.kind \in {"decided", "HOLD"}
DecidedAction == IF sEvent.kind = "HOLD" THEN "HOLD" ELSE sEvent.action

C21_MonitorInformed ==
    (wEvent.kind = "start_end" /\ wEvent.withdraw = "success")
       => pending_withdrawal_amount > 0

\* C22 -- whatever a tick ends with (a failed call, an exception out of the
\* body) the task goes to its sleep and not to its end; a task ends only at a
\* loop check that read the running flag cleared; and from its sleep a task
\* reaches its next tick unless the flag is cleared.
C22_NoErrorIsFatal ==
    /\ [](lEvent.kind = "tick_end" => lTasks[lEvent.task] = "sleep")
    /\ [][\A t \in Tasks :
            (lTasks'[t] = "done" /\ lTasks[t] # "done")
               => (~running /\ lTasks[t] \in {"sleep", "initial_balance"})]_vars
    /\ \A t \in Tasks :
         [](lTasks[t] = "sleep" => <>(lTasks[t] = "tick" \/ ~running))
\* a tick ended by an exception and the loop sleeps towards its next tick
C22_Witness ==
    /\ lEvent.kind = "tick_end"
    /\ lEvent.outcome = "raise"
    /\ lTasks[lEvent.task] = "sleep"
    /\ running

\* C23 -- (as claimed) every task that was running the loop when stop() was
\* called eventually terminates.
C23_StopTerminates ==
    \A t \in Tasks : [](t \in lStopped => <>(lTasks[t] = "done"))

\* ================================================================
\* Properties of NAVState
\* ================================================================
\* C30 -- NAVState changes only on a successful ledger update: a step that
\* changes last_nav or last_update is the return of an update_nav invocation
\* that succeeded, and after it last_nav is the value that invocation carried,
\* last_update the time of the return and the vault's NAV that value encoded;
\* a non-positive or failed equity read and a failed invocation leave both
\* fields as they were.
C30_NavStateOnlyOnSuccess ==
    [][/\ (last_nav' # last_nav \/ last_update' # last_update)
            => /\ nEvent'.kind = "update_done"
               /\ nEvent'.ok
               /\ \/ nEvent'.path = "scheduled" /\ pcN = "invoking" /\ last_nav' = nNav
                  \/ nEvent'.path = "force" /\ pcF = "invoking" /\ last_nav' = fNav
               /\ last_update' = now
               /\ chainNav' = ToRaw(last_nav')
       /\ ((pcN = "invoking" /\ pcN' = "idle") \/ (pcF = "invoking" /\ pcF' = "idle"))
            => \/ nEvent'.kind = "update_done" /\ nEvent'.ok
                  /\ last_nav' = (IF pcN' # pcN THEN nNav ELSE fNav)
               \/ nEvent'.kind = "update_done" /\ ~nEvent'.ok
                  /\ UNCHANGED <<last_nav, last_update, chainNav>>
       /\ nEvent'.kind = "no_equity" => UNCHANGED <<last_nav, last_update, chainNav>>]_vars
\* a forced update of 212 succeeded after one of 200: NAVState holds 212 and
\* the time of the return
C30_Witness ==
    /\ nEvent.kind = "update_done"
    /\ nEvent.ok
    /\ last_nav = 212
    /\ last_update = now
    /\ now > 0
    /\ chainNav = ToRaw(212)

\* ================================================================
\* Properties of a deployment without the signing key
\* ================================================================
\* C24 -- without the operator's key every operation that needs a signature
\* returns its failure value and nothing reaches the chain: the mint, the
\* deposit to the exchange, the forward to the vault, the NAV update and sync
\* and mark-ready all report failure; no deposit becomes processed, no
\* request becomes READY, the vault's NAV and the wallet are not spent or
\* written; and the callers keep their state: pending_deposit and
\* pending_withdrawal_amount are not reduced, NAVState is not updated, and no
\* processing entry is removed as completed.
C24_ReadOnlyWithoutKey ==
    /\ [](operator_private_key = "" =>
            /\ dEvent.kind = "mint" => ~dEvent.ok
            /\ wEvent.kind = "forward" => ~wEvent.ok
            /\ nEvent.kind = "update_done" => ~nEvent.ok
            /\ mEvent.kind = "deposit" => ~mEvent.ok
            /\ mEvent.kind # "forwarded"
            /\ mEvent.kind = "classified" => mEvent.forwarded = 0
            /\ completed = {}
            /\ minted = {} /\ deposited = {} /\ forwarded = {} /\ marked = {}
            /\ last_nav = 0 /\ last_update = -1)
    /\ [][operator_private_key = "" =>
            /\ chainNav' = chainNav
            /\ wallet' >= wallet
            /\ \A k \in 1 .. Len(deposits) :
                  Len(deposits') >= k /\ deposits'[k] = deposits[k]
            /\ \A id \in ReqIds : wstatus'[id] = "READY" => wstatus[id] = "READY"
            /\ pending_deposit' >= pending_deposit
            /\ pending_withdrawal_amount' >= pending_withdrawal_amount
            /\ (pcW = "check" /\ pcW' = "idle")
                  => processing_withdrawals' = processing_withdrawals]_vars
\* the mint was invoked for the first deposit and returned its failure value;
\* the deposit is still unprocessed on the vault
C24_Witness ==
    /\ operator_private_key = ""
    /\ dEvent.kind = "mint"
    /\ ~dEvent.ok
    /\ dEvent.id = 0
    /\ ~deposits[1].processed

\* ================================================================
\* Properties of the rebalancer's status
\* ================================================================
\* C25 -- (as claimed) after a run_once whose strategy execution failed, the
\* status reports a last_action that carries the error marker of that run,
\* never the result of an earlier run.
C25_StatusShowsError ==
    (nEvent.kind = "run_once" /\ nEvent.raised) => last_action = nEvent.returned

C27_ForwardsObservedAmount ==
    [][(pcD = "deposit" /\ pcD' = "short")
         => (dEvent.kind = "balance" /\ ~dEvent.low)]_vars

\* ================================================================
\* Properties of the proportional close
\* ================================================================
\* C28 -- nothing left to close is no failure: when the exchange lists no
\* hedge, or one of size zero, _close_proportional_position places no order
\* and returns True; and whatever the close step returned, the next step of
\* the processing is the withdrawal request for the same amount.
C28_CloseTolerant ==
    /\ []((cEvent.kind = "close" /\ cEvent.read /\ cEvent.size \in {NoPosition, 0})
            => (cEvent.order = 0 /\ cEvent.returned))
    /\ []((cEvent.kind = "close" /\ ~cEvent.read)
            => (cEvent.order = 0 /\ ~cEvent.returned))
    /\ [](cEvent.kind = "close" => pcC = "withdrawing")
    /\ [][(pcC = "closing" /\ pcC' # pcC) => pcC' = "withdrawing"]_vars
    /\ [][(pcC = "withdrawing" /\ pcC' # pcC)
            => (cEvent'.kind = "withdraw_request"
                /\ cEvent'.amount = close_usdc_amount)]_vars
\* the exchange listed a hedge of size zero: no order, True, and the
\* withdrawal request is next
C28_Witness ==
    /\ cEvent.kind = "close"
    /\ cEvent.read
    /\ cEvent.size = 0
    /\ cEvent.order = 0
    /\ cEvent.returned
    /\ pcC = "withdrawing"

\* C29 -- (as claimed) the hedge is closed in full when the amount to close,
\* usdc_amount * leverage, is at least the value of the live hedge, and
\* otherwise by exactly the size worth that amount, both taken in USD.
C29_ProportionalClose ==
    (cEvent.kind = "close" /\ cEvent.read /\ cEvent.size > 0)
       => IF ProportionalCloseSize(cEvent.usdc_amount) >= cEvent.size * MarkPrice
          THEN cEvent.order = cEvent.size
          ELSE cEvent.order * MarkPrice = ProportionalCloseSize(cEvent.usdc_amount)

\* ================================================================
\* Properties of the monitor's classification
\* ================================================================
\* the balance a check read: held in its locals across an await, or stored
\* in last_balance when the check ended without one
ObservedBalance ==
    IF pcM' \in {"forward_pending", "forward_match"}
    THEN mLocal'.current_balance
    ELSE last_balance'

\* C31 -- priority forward: a check that finds pending_withdrawal_amount > 0
\* and a balance above 0.1 first attempts to forward min(balance, pending),
\* with or without an increase; when the attempt succeeds
\* pending_withdrawal_amount decreases by exactly that amount (and the wallet
\* by its raw value), and when it fails both are unchanged.
C31_PriorityForward ==
    /\ [][(/\ pcM = "idle" /\ pcM' # "boot"
            /\ wallet' = wallet
            /\ pending_withdrawal_amount' = pending_withdrawal_amount
            /\ pending_withdrawal_amount > 0
            /\ ObservedBalance > MinForwardBalance)
            => /\ pcM' = "forward_pending"
               /\ mEvent'.kind = "attempt"
               /\ mLocal'.amount = Min(ObservedBalance, pending_withdrawal_amount)]_vars
    /\ [](mEvent.kind = "attempt"
            => /\ pcM = "forward_pending"
               /\ mEvent.pending > 0
               /\ mEvent.balance > MinForwardBalance
               /\ mLocal.amount = Min(mEvent.balance, mEvent.pending))
    /\ [][(pcM = "forward_pending" /\ pcM' \notin {"forward_pending", "boot"})
            => IF mEvent'.kind = "forwarded"
               THEN /\ mEvent'.amount = mLocal.amount
                    /\ pending_withdrawal_amount'
                          = pending_withdrawal_amount - mLocal.amount
                    /\ wallet' = wallet - ToRaw(mLocal.amount)
               ELSE /\ pending_withdrawal_amount' = pending_withdrawal_amount
                    /\ wallet' = wallet]_vars
\* an attempt made by a check that saw no increase
C31_Witness ==
    /\ mEvent.kind = "attempt"
    /\ mEvent.balance <= mEvent.last
    /\ pcM = "forward_pending"

\* C32 -- (as claimed) every positive balance delta is fully classified: at
\* the end of a check that saw the balance above last_balance, the increase
\* is the amount forwarded for pending withdrawals plus the amount added to
\* pending_deposit, up to the rounding threshold, also when the check took
\* the priority forward.
C32_DeltaClassified ==
    /\ (mEvent.kind = "classified" /\ mEvent.increase > 0)
         => Abs(mEvent.increase - mEvent.forwarded - mEvent.deposit)
              <= RoundingThreshold
    /\ (mEvent.kind = "forwarded" /\ mEvent.increase > 0)
         => Abs(mEvent.increase - mEvent.amount) <= RoundingThreshold

\* C33 -- auto-deposit: a check that leaves pending_deposit at or above 1.0
\* is followed by one deposit_to_extended call for exactly pending_deposit;
\* when it succeeds pending_deposit becomes 0 and one strategy pass runs;
\* when it fails pending_deposit is unchanged, no strategy pass runs, and,
\* nothing but a successful deposit lowering pending_deposit, the check of a
\* later tick leads to the call again.
C33_AutoDeposit ==
    /\ [][(pcM = "depositing" /\ pcM' \notin {"depositing", "boot"})
            => /\ mEvent'.kind = "deposit"
               /\ mEvent'.amount = pending_deposit
               /\ IF mEvent'.ok
                  THEN /\ pending_deposit' = 0
                       /\ pcM' = "strategy"
                       /\ wallet' = wallet - ToRaw(pending_deposit)
                  ELSE /\ pending_deposit' = pending_deposit
                       /\ pcM' = "idle"
                       /\ wallet' = wallet]_vars
    /\ [][(pcM' = "strategy" /\ pcM # "strategy")
            => (pcM = "depositing" /\ mEvent'.kind = "deposit" /\ mEvent'.ok)]_vars
    /\ [][(pcM = "strategy" /\ pcM' \notin {"strategy", "boot"}) => pcM' = "idle"]_vars
    /\ [][(pcM # "depositing" /\ pcM' # "boot")
            => pending_deposit' >= pending_deposit]_vars
    /\ [](pcM = "depositing" => pending_deposit >= MinDeposit)
    /\ []((pcM = "idle"
            /\ mEvent.kind \in {"classified", "no_increase", "forwarded"})
            => pending_deposit < MinDeposit)
\* a deposit call failed: pending_deposit is what it was and the loop is
\* back at its sleep
C33_Witness ==
    /\ mEvent.kind = "deposit"
    /\ ~mEvent.ok
    /\ pcM = "idle"
    /\ pending_deposit = mEvent.amount
    /\ pending_deposit >= MinDeposit

\* ---------------------------------------------------------------------
\* Properties of the settlement step against the vault's queue

\* C34: every successful forward to the vault, and every mark_withdrawal_ready
\* call, is made for a request whose on-chain status is PENDING or PROCESSING
\* at that moment; nothing is forwarded for a request that was cancelled
\* while its entry waited
C34_OnlyLiveRequests ==
    /\ [][(pcW = "forward" /\ pcW' # "forward" /\ wEvent'.kind = "forward"
             /\ wEvent'.ok)
          => wstatus[wEvent'.id] \in {"PENDING", "PROCESSING"}]_vars
    /\ [][(pcW = "mark" /\ pcW' # "mark" /\ wEvent'.kind = "mark")
          => wstatus[wEvent'.id] \in {"PENDING", "PROCESSING"}]_vars

\* ---------------------------------------------------------------------
\* The withdrawal loop and the deposit loop on the one operator wallet.
\* Both are started by startup_event and share self.starknet's account; the
\* exchange pays out nothing in this specification, so every unit the wallet
\* holds arrived through a deposit mint; one user deposits.
SettleNewDeposit ==
    /\ deposits = << >>
    /\ EnvNewDeposit

\* the withdrawal loop is followed up to the tick in which it first forwards
SettleTickBegin ==
    /\ forwarded = {}
    /\ WTickBegin

NextSettle ==
    \/ SettleTickBegin
    \/ WScanItem
    \/ WValuation
    \/ WClosePosition
    \/ WWithdrawRequest
    \/ WCheckItem
    \/ WForward
    \/ WMarkReady
    \/ WCheckEnd
    \/ DTickBegin
    \/ DScanItem
    \/ DMint
    \/ DBalance
    \/ DDepositExtended
    \/ DOpenShort
    \/ SettleNewDeposit

SpecSettle == InitDep /\ [][NextSettle]_vars

\* C35: while no exchange payout has arrived, the balance check of a waiting
\* withdrawal is never satisfied and nothing is forwarded for it: USDC that a
\* deposit mint brought into the wallet is not used to settle a withdrawal
C35_OwnPayoutOnly ==
    /\ pcW # "forward"
    /\ forwarded = {}

\* ---------------------------------------------------------------------
\* The deposit loop and the wallet monitor on the one operator wallet: the
\* loop is started by startup_event, the monitor by /api/wallet/start-monitor.
\* No withdrawal is expected and nothing but the mint credits the wallet.
NextDepMon ==
    \/ DTickBegin
    \/ DScanItem
    \/ DMint
    \/ DBalance
    \/ DDepositExtended
    \/ DOpenShort
    \/ SettleNewDeposit
    \/ MStart
    \/ MCheck
    \/ MDeposit
    \/ MStrategy

SpecDepMon == InitDep /\ [][NextDepMon]_vars

\* C36: the wallet increase caused by a mint that the deposit loop forwards
\* itself is not accumulated into the monitor's pending_deposit, and the
\* monitor makes no deposit-to-exchange call for it
C36_DepositedOnce ==
    /\ pending_deposit = 0
    /\ pcM # "depositing"

\* ---------------------------------------------------------------------
\* Properties of the start and stop requests

\* C37: whatever the sequence of start and stop requests, at most one task
\* runs an object's polling loop at any time
C37_OneLoopInstance ==
    Cardinality({t \in Tasks : Live(t)}) <= 1

\* ---------------------------------------------------------------------
\* Progress of the scheduled reporter: start() calls _report_nav every
\* update_interval seconds for as long as the service runs, so a turn of the
\* reporter that can change the state is eventually taken, and an awaited
\* ledger call returns
NavFairness ==
    /\ WF_vars(NReport)
    /\ WF_vars(FForceDone)
    /\ WF_vars(RSyncNav)

SpecNavFair == InitNav /\ [][NextNav]_vars /\ NavFairness

\* C38: if the exchange equity stays at one positive value, the reported NAV
\* eventually equals it, whatever the NAV reported before
C38_NavProgress ==
    \A e \in EquitySet \ {0} :
       <>[](equity = e) => <>(last_nav = e)

\* ---------------------------------------------------------------------
\* Properties of the funding latch

\* C39: the closed-due-to-funding flag is set only by a close-all that
\* succeeded: a close that failed leaves the flag unset (the close is tried
\* again at the next check), and a step that sets the flag leaves no hedge
\* exposure
C39_LatchOnlyAfterClose ==
    [][(~position_closed_due_to_funding /\ position_closed_due_to_funding')
         => (/\ pEvent'.kind = "close_all"
             /\ pEvent'.result \in {"success", "no_position"}
             /\ position_value' = 0)]_vars

\* ---------------------------------------------------------------------
\* Properties of the restarts of one withdrawal request

\* C40: across all restarts of one request, the size closed on its behalf
\* never exceeds its settlement amount times the leverage (the close size
\* _close_proportional_position computes for it)
C40_CloseBoundedAcrossRetries ==
    closed_total <= ProportionalCloseSize(close_usdc_amount)

====
